---------------------------- MODULE Spec2Model ----------------------------
(***************************************************************************)
(* Model of the device-report scripts of the repository:                   *)
(*   arista-eos-port-utilization.py   (get_port_utilization, main)         *)
(*   cisco-ios-xe-bgp-status.py       (get_bgp_neighbors, main)            *)
(*   juniper-junos-ospf-status.py     (get_ospf_neighbors, main)           *)
(*   dns-domain-checker.py            (check_dns_record_exists, main)      *)
(* One invocation of one script is one behaviour: Init picks the script    *)
(* and its command-line arguments, the actions are the steps of the        *)
(* script, and the device's answers are drawn from small sets.             *)
(*                                                                         *)
(* Values decoded from the device (JSON) are tagged records:               *)
(*   [t |-> "num", n, d]   the number n/d (an exact rational; Python       *)
(*                         floats are modelled without rounding error)     *)
(*   [t |-> "str", s]      a string                                        *)
(*   [t |-> "null"], [t |-> "list"]   None, a list                         *)
(*   [t |-> "map", m]      a mapping, m a function from keys to values     *)
(***************************************************************************)
EXTENDS Integers, Sequences, FiniteSets, TLC

VARIABLES
    script,                 \* which script this invocation runs
    pc,                     \* position of the invocation
    host,                   \* --host argument
    \* ---- arista-eos-port-utilization.py
    threshold,              \* --threshold argument
    version_data,           \* show_version["result"][0]
    device_info,            \* device block of the report
    interface_status,       \* "interfaceStatuses": sequence of <<name, entry>> in dict order
    interface_descriptions, \* "interfaceDescriptions": name -> entry
    interface_rates,        \* rates "interfaces": name -> entry
    interface_errors,       \* "interfaceCounters": name -> entry
    interfaces,             \* list of interface_info built by the loop
    active_interfaces_count,
    high_utilization_count,
    error_interfaces_count,
    loop_errors,            \* <<name, exception>> for each pass that ended at line 268
    \* ---- cisco-ios-xe-bgp-status.py
    specific_neighbor,      \* --neighbor argument, or NoValue
    platform,               \* local of get_bgp_neighbors, NoValue until assigned
    hostname,               \* local of get_bgp_neighbors, NoValue until assigned;
                            \* in dns-domain-checker.py the --hostname argument
    bgp,                    \* local_as and router_id, NoValue until assigned
    \* ---- juniper-junos-ospf-status.py
    facts,                  \* dev.facts
    full_state_count,
    non_full_state_count,
    areas,
    \* ---- shared by the Cisco and the Juniper script
    session,                \* "none", "open" or "closed": the SSH / NETCONF session
    exc,                    \* the exception the device library raised, or NoValue
    neighbors,              \* list of neighbor_info
    neighbor_sections,      \* Cisco: the sections of the neighbors output, in order
    rpc,                    \* Juniper: the ospf-neighbor nodes of the reply, in order
    \* ---- dns-domain-checker.py
    exists,                 \* first component of the tuple returned, NoValue until then
    ip_address,             \* second component of the tuple returned
    \* ---- shared by the three scripts: what the function returned / raised, what main did
    result,                 \* the report returned, or NoValue
    raised,                 \* the exception that left the function, or NoValue
    stdout,                 \* the document main printed, or NoValue
    stderr,                 \* TRUE when main wrote the "Error: ..." line
    exit_code               \* sys.exit code, -1 while running

varsArista == <<threshold, version_data, device_info, interface_status,
                interface_descriptions, interface_rates, interface_errors,
                interfaces, active_interfaces_count, high_utilization_count,
                error_interfaces_count, loop_errors>>
varsCisco == <<specific_neighbor, platform, hostname, bgp>>
varsJuniper == <<facts, full_state_count, non_full_state_count, areas>>
varsSession == <<session, exc, neighbors>>
varsMain == <<result, raised, stdout, stderr, exit_code>>
varsReply == <<neighbor_sections, rpc>>
varsDns == <<exists, ip_address>>
varsOther == <<varsCisco, varsJuniper, varsSession, varsReply, varsDns>>
vars == <<script, pc, host, varsArista, varsCisco, varsJuniper, varsSession, varsReply,
          varsDns, varsMain>>

----------------------------------------------------------------------------
(* Bounds *)

\* entries of the status table visited by one run
MaxInterfaces == 2

----------------------------------------------------------------------------
(* Decoded values and the Python operations the scripts apply to them *)

NoValue == [t |-> "none"]
Null == [t |-> "null"]
List == [t |-> "list"]
Str(s) == [t |-> "str", s |-> s]
Num(n, d) == [t |-> "num", n |-> n, d |-> d]
Whole(n) == Num(n, 1)
Map(m) == [t |-> "map", m |-> m]
EmptyMap == Map(<<>>)

RECURSIVE GCD(_, _)
GCD(a, b) == IF b = 0 THEN a ELSE GCD(b, a % b)

Abs(x) == IF x < 0 THEN -x ELSE x

\* the rational n/d in lowest terms with a positive denominator
Rat(n, d) ==
    LET g == GCD(Abs(n), Abs(d))
        s == IF d < 0 THEN -1 ELSE 1
    IN  Num(s * (n \div g), s * (d \div g))

RatMul(a, b) == Rat(a.n * b.n, a.d * b.d)
RatDiv(a, b) == Rat(a.n * b.d, a.d * b.n)
RatGT(a, b) == a.n * b.d > b.n * a.d
RatGE(a, b) == a.n * b.d >= b.n * a.d
Zero == Whole(0)

\* round(x, 2): to the nearest hundredth, ties to even
Round2(x) ==
    LET n == x.n * 100
        f == n \div x.d
        r == n % x.d
        h == IF 2 * r < x.d THEN f
             ELSE IF 2 * r > x.d THEN f + 1
             ELSE IF f % 2 = 0 THEN f ELSE f + 1
    IN  Rat(h, 100)

\* Results of an expression that may raise
Ok(v) == [exc |-> "none", v |-> v]
Raise(e) == [exc |-> e, v |-> NoValue]

\* strings of digits the device could send in place of a number, and their value
NumericStrings == {"100"}
StrValue(s) == IF s = "100" THEN 100 ELSE 0

\* float(v)
PyFloat(v) ==
    CASE v.t = "num" -> Ok(v)
      [] v.t = "str" -> IF v.s \in NumericStrings THEN Ok(Whole(StrValue(v.s)))
                        ELSE Raise("ValueError")
      [] OTHER -> Raise("TypeError")

\* int(v): truncation toward zero
Trunc(x) == IF x.n >= 0 THEN x.n \div x.d ELSE -((-x.n) \div x.d)
PyInt(v) ==
    CASE v.t = "num" -> Ok(Whole(Trunc(v)))
      [] v.t = "str" -> IF v.s \in NumericStrings THEN Ok(Whole(StrValue(v.s)))
                        ELSE Raise("ValueError")
      [] OTHER -> Raise("TypeError")

\* v.get(key, default)
PyGet(v, key, default) ==
    IF v.t # "map" THEN Raise("AttributeError")
    ELSE IF key \in DOMAIN v.m THEN Ok(v.m[key]) ELSE Ok(default)

\* key in v  (no string of the model contains a key as a substring)
PyIn(key, v) ==
    CASE v.t = "map" -> Ok(key \in DOMAIN v.m)
      [] v.t \in {"str", "list"} -> Ok(FALSE)
      [] OTHER -> Raise("TypeError")

\* table.get(name, {}) on a side-table, a function from names to entries
TableGet(table, name) == IF name \in DOMAIN table THEN table[name] ELSE EmptyMap

\* try: x = expr / except caught: pass  -- x keeps default; any other exception escapes
Try(r, caught, default) ==
    IF r.exc = "none" THEN r
    ELSE IF r.exc \in caught THEN Ok(default)
    ELSE r

\* interface_name.startswith(prefix); a name is <<prefix, unit>>
\* mutant of StartsWith: every identifier passes the prefix test
StartsWithAnyPrefix(name, prefix) == TRUE

StartsWith(name, prefix) == name[1] = prefix

----------------------------------------------------------------------------
(* arista-eos-port-utilization.py: get_port_utilization *)

\* except (KeyError, TypeError) and except (TypeError, KeyError, ValueError)
FieldErrors == {"TypeError", "KeyError"}
\* mutant of ValueErrors: the handler does not name ValueError
ValueErrorsWithoutValueError == {"TypeError", "KeyError"}
ValueErrors == {"TypeError", "KeyError", "ValueError"}

\* conv(r): int or float applied to the value of r, unless r raised
Converted(r, conv) ==
    IF r.exc # "none" THEN r
    ELSE IF conv = "int" THEN PyInt(r.v) ELSE PyFloat(r.v)

\* hostname/model/version of the device block (lines 69-93): the default stays
\* when .get raises KeyError or TypeError; any other exception escapes
IdentityField(data, key) ==
    Try(PyGet(data, key, Str("Unknown")), FieldErrors, Str("Unknown"))

\* line 96-97: the host given on the command line replaces an unknown hostname
HostnameOrHost(found, h) == IF found = Str("Unknown") THEN Str(h) ELSE found

\* line 190
DescriptionOf(name, descriptions) ==
    Try(PyGet(TableGet(descriptions, name), "description", Str("")),
        FieldErrors, Str(""))

ToMbps(i) == Rat(i.n, 1000000)

\* line 197: the condition of the conditional expression is evaluated first
BandwidthOf(status) ==
    LET has == PyIn("bandwidth", status)
        conv == Converted(PyGet(status, "bandwidth", Whole(0)), "int")
    IN  Try(IF has.exc # "none" THEN has
            ELSE IF ~has.v THEN Ok(Zero)
            ELSE IF conv.exc # "none" THEN conv
            ELSE Ok(ToMbps(conv.v)),
            ValueErrors, Zero)

\* line 204
OperStatusOf(status) ==
    Try(PyGet(status, "linkStatus", Str("unknown")), FieldErrors, Str("unknown"))

\* mutant of MetricOf: an identifier without an entry gets the previous identifier's
MetricOfNeighbourEntry(name, table, key, conv) ==
    Try(IF name \in DOMAIN table
        THEN Converted(PyGet(TableGet(table, name), key, Whole(0)), conv)
        ELSE IF <<name[1], name[2] - 1>> \in DOMAIN table
        THEN Converted(PyGet(TableGet(table, <<name[1], name[2] - 1>>), key, Whole(0)),
                       conv)
        ELSE Ok(Zero),
        ValueErrors, Zero)

\* lines 217, 222 (float) and 240, 245 (int): table is the side-table, conv the conversion
MetricOf(name, table, key, conv) ==
    Try(IF name \in DOMAIN table
        THEN Converted(PyGet(TableGet(table, name), key, Whole(0)), conv)
        ELSE Ok(Zero),
        ValueErrors, Zero)

\* a / b
PyDiv(a, b) == IF b.n = 0 THEN Raise("ZeroDivisionError") ELSE Ok(RatDiv(a, b))

\* r * 100, unless r raised
Percent(r) == IF r.exc # "none" THEN r ELSE Ok(RatMul(r.v, Whole(100)))

\* mutant of Utilization: the guard tests bandwidth_mbps != 0
UtilizationGuardNonZero(rate_mbps, bandwidth_mbps) ==
    IF bandwidth_mbps.n # 0
    THEN Percent(PyDiv(rate_mbps, bandwidth_mbps))
    ELSE Ok(Zero)

\* lines 227-228
Utilization(rate_mbps, bandwidth_mbps) ==
    IF RatGT(bandwidth_mbps, Zero)
    THEN Percent(PyDiv(rate_mbps, bandwidth_mbps))
    ELSE Ok(Zero)

\* mutant of HighUtilization: the comparison is >=
HighUtilizationAtThreshold(input_utilization, output_utilization, thr) ==
    RatGE(input_utilization, Whole(thr)) \/ RatGE(output_utilization, Whole(thr))

\* mutant of HighUtilization: the values compared are the rounded ones
HighUtilizationOfRounded(input_utilization, output_utilization, thr) ==
    \/ RatGT(Round2(input_utilization), Whole(thr))
    \/ RatGT(Round2(output_utilization), Whole(thr))

\* line 231
HighUtilization(input_utilization, output_utilization, thr) ==
    RatGT(input_utilization, Whole(thr)) \/ RatGT(output_utilization, Whole(thr))

\* line 249
HasErrors(input_errors, output_errors) ==
    RatGT(input_errors, Zero) \/ RatGT(output_errors, Zero)

\* What one pass of the loop body (lines 182-270) does for one entry of the status
\* table: the counters it increments and the item it appends, if it gets that far.
\* An exception that no inner handler catches leaves the body at that point
\* (line 268) with the counters incremented so far.
Left(e, active, high) ==
    [appended |-> FALSE, exc |-> e, item |-> NoValue,
     active |-> active, high |-> high, errs |-> 0]

LoopBody(name, status, descriptions, rates, errors, thr) ==
    LET description == DescriptionOf(name, descriptions)
        bandwidth == BandwidthOf(status)
        oper_status == OperStatusOf(status)
        active == IF oper_status.v = Str("up") THEN 1 ELSE 0
        input_rate == MetricOf(name, rates, "inRate", "float")
        output_rate == MetricOf(name, rates, "outRate", "float")
        input_utilization == Utilization(input_rate.v, bandwidth.v)
        output_utilization == Utilization(output_rate.v, bandwidth.v)
        high_utilization ==
            HighUtilization(input_utilization.v, output_utilization.v, thr)
        high == IF high_utilization THEN 1 ELSE 0
        input_errors == MetricOf(name, errors, "inErrors", "int")
        output_errors == MetricOf(name, errors, "outErrors", "int")
        interface_info ==
            [name |-> name,
             description |-> description.v,
             status |-> oper_status.v,
             bandwidth_mbps |-> bandwidth.v,
             input_rate_mbps |-> Round2(input_rate.v),
             output_rate_mbps |-> Round2(output_rate.v),
             input_utilization |-> Round2(input_utilization.v),
             output_utilization |-> Round2(output_utilization.v),
             input_errors |-> input_errors.v,
             output_errors |-> output_errors.v,
             high_utilization |-> high_utilization]
    IN  IF ~StartsWith(name, "Ethernet") THEN Left("none", 0, 0)
        ELSE IF description.exc # "none" THEN Left(description.exc, 0, 0)
        ELSE IF bandwidth.exc # "none" THEN Left(bandwidth.exc, 0, 0)
        ELSE IF oper_status.exc # "none" THEN Left(oper_status.exc, 0, 0)
        ELSE IF input_rate.exc # "none" THEN Left(input_rate.exc, active, 0)
        ELSE IF output_rate.exc # "none" THEN Left(output_rate.exc, active, 0)
        ELSE IF input_utilization.exc # "none"
             THEN Left(input_utilization.exc, active, 0)
        ELSE IF output_utilization.exc # "none"
             THEN Left(output_utilization.exc, active, 0)
        ELSE IF input_errors.exc # "none" THEN Left(input_errors.exc, active, high)
        ELSE IF output_errors.exc # "none" THEN Left(output_errors.exc, active, high)
        ELSE [appended |-> TRUE, exc |-> "none", item |-> interface_info,
              active |-> active, high |-> high,
              errs |-> IF HasErrors(input_errors.v, output_errors.v) THEN 1 ELSE 0]

\* line 273: list.sort(key=max(input_utilization, output_utilization), reverse=True);
\* the sort is stable, also under reverse=True
RankingKey(x) ==
    IF RatGE(x.input_utilization, x.output_utilization)
    THEN x.input_utilization ELSE x.output_utilization

\* x inserted behind every element whose key is >= its own
InsertDesc(sorted, x) ==
    LET before == {i \in 1..Len(sorted) : RatGE(RankingKey(sorted[i]), RankingKey(x))}
        k == Cardinality(before)
    IN  SubSeq(sorted, 1, k) \o <<x>> \o SubSeq(sorted, k + 1, Len(sorted))

\* mutant of SortDesc: the items stay in the order of collection
SortDescOmitted(seq) == seq

RECURSIVE SortDesc(_)
SortDesc(seq) ==
    IF seq = <<>> THEN <<>>
    ELSE InsertDesc(SortDesc(SubSeq(seq, 1, Len(seq) - 1)), seq[Len(seq)])

\* lines 276-281
SummaryOf(items, active, high, errs) ==
    [total_interfaces |-> Len(items),
     active_interfaces |-> active,
     high_utilization_interfaces |-> high,
     error_interfaces |-> errs]

\* An exception: its class and its message. A message is a sequence of pieces of
\* text; the pieces are cut so that every text the scripts search for is a run of
\* whole pieces ("%BGP" is <<"%", "BGP">>).
Exc(class, msg) == [t |-> "exc", class |-> class, msg |-> msg]

\* raise RuntimeError(f"<prefix>{str(e)}")
RuntimeError(prefix, e) == Exc("RuntimeError", prefix \o e.msg)

\* needle in text
Contains(text, needle) ==
    \E i \in 1..(Len(text) - Len(needle) + 1) :
        SubSeq(text, i, i + Len(needle) - 1) = needle

AristaFailed == <<"Failed to retrieve port utilization data: ">>

----------------------------------------------------------------------------
(* What the Arista device answers *)

Hosts == {"10.1.1.1"}
Thresholds == {70}

\* show version: result[0]
VersionAnswers ==
    { Map([hostname |-> Str("sw1"), modelName |-> Str("DCS-7050"), version |-> Str("4.27")]),
      Map([hostname |-> Str("sw1"), version |-> Str("4.27")]),
      Map(<<>>),
      List }

Absent == [t |-> "absent"]

\* an entry of "interfaceStatuses" as the device usually sends it, and other entries
UsualStatus == Map([bandwidth |-> Whole(1000000000), linkStatus |-> Str("up")])
OtherStatuses ==
    { Map([bandwidth |-> Whole(-1000000000), linkStatus |-> Str("down")]),
      Map([bandwidth |-> Str("abc")]),
      Map([linkStatus |-> Str("down")]),
      Str("bad") }

\* the entry of an identifier in "interfaceDescriptions", or none
UsualDescription == Map([description |-> Str("uplink")])
DescriptionAnswers == { Absent, UsualDescription }
OtherDescriptions == { Str("bad") }

\* the entry of an identifier in the rates table, or none
UsualRates == Map([inRate |-> Whole(700), outRate |-> Whole(100)])
RateAnswers ==
    { Absent,
      UsualRates,
      Map([inRate |-> Num(17501, 25), outRate |-> Str("100")]),
      Map([inRate |-> Str("abc"), outRate |-> Whole(800)]),
      Map([inRate |-> Whole(-5), outRate |-> Null]),
      List }

\* the entry of an identifier in the errors table, or none
ErrorAnswers ==
    { Absent,
      Map([inErrors |-> Whole(3), outErrors |-> Str("x")]),
      Map([outErrors |-> Null]),
      Str("bad") }

\* What the device holds for one identifier: its entry in the status table and in
\* each side-table. A usual status entry comes with every combination of
\* description, rates and errors entries; an entry of the status or descriptions
\* table of another shape, and an identifier that is not an Ethernet port, come
\* with the usual rates and no errors entry.
RawEntries ==
    [prefix : {"Ethernet"}, status : {UsualStatus}, description : DescriptionAnswers,
     rates : RateAnswers, errors : ErrorAnswers]
    \cup [prefix : {"Ethernet"}, status : OtherStatuses, description : {UsualDescription},
          rates : {UsualRates}, errors : {Absent}]
    \cup [prefix : {"Ethernet"}, status : {UsualStatus}, description : OtherDescriptions,
          rates : {UsualRates}, errors : {Absent}]
    \cup [prefix : {"Management"}, status : {UsualStatus}, description : {Absent},
          rates : {UsualRates}, errors : {Absent}]

\* the side-table with the entry of name added, when the device has one
WithEntry(table, name, entry) ==
    IF entry = Absent THEN table
    ELSE [n \in DOMAIN table \cup {name} |-> IF n = name THEN entry ELSE table[n]]

----------------------------------------------------------------------------
(* Initial state: the invocation and its arguments *)

\* --neighbor of cisco-ios-xe-bgp-status.py: absent, or an address
Neighbors == {NoValue, Str("192.168.1.1")}

\* --hostname of dns-domain-checker.py
DnsHostnames == {Str("www.example.com"), Str("nonexistent.invalid")}

Scripts == {"arista", "cisco", "juniper", "dns"}

Init ==
    /\ script \in Scripts
    /\ pc = "start"
    /\ host \in IF script = "dns" THEN {NoValue} ELSE Hosts
    /\ threshold \in Thresholds
    /\ version_data = NoValue
    /\ device_info = NoValue
    /\ interface_status = <<>>
    /\ interface_descriptions = <<>>
    /\ interface_rates = <<>>
    /\ interface_errors = <<>>
    /\ interfaces = <<>>
    /\ active_interfaces_count = 0
    /\ high_utilization_count = 0
    /\ error_interfaces_count = 0
    /\ loop_errors = <<>>
    /\ specific_neighbor \in IF script = "cisco" THEN Neighbors ELSE {NoValue}
    /\ platform = NoValue
    /\ hostname \in IF script = "dns" THEN DnsHostnames ELSE {NoValue}
    /\ bgp = NoValue
    /\ facts = NoValue
    /\ neighbor_sections = <<>>
    /\ rpc = <<>>
    /\ exists = NoValue
    /\ ip_address = NoValue
    /\ full_state_count = 0
    /\ non_full_state_count = 0
    /\ areas = {}
    /\ session = "none"
    /\ exc = NoValue
    /\ neighbors = <<>>
    /\ result = NoValue
    /\ raised = NoValue
    /\ stdout = NoValue
    /\ stderr = FALSE
    /\ exit_code = -1

----------------------------------------------------------------------------
(* arista-eos-port-utilization.py: steps of get_port_utilization and main *)

\* lines 62-105: show version answers and the device block is built; an exception
\* that escapes the per-field handlers leaves the function (line 296)
AristaShowVersion ==
    /\ script = "arista" /\ pc = "start"
    /\ \E answer \in VersionAnswers :
         LET found_hostname == IdentityField(answer, "hostname")
             model == IdentityField(answer, "modelName")
             serial_number == IdentityField(answer, "serialNumber")
             version == IdentityField(answer, "version")
         IN  /\ version_data' = answer
             /\ IF found_hostname.exc # "none" \/ model.exc # "none"
                   \/ serial_number.exc # "none" \/ version.exc # "none"
                THEN /\ raised' = RuntimeError(AristaFailed,
                                              Exc("AttributeError", <<"no attribute get">>))
                     /\ pc' = "raised"
                     /\ UNCHANGED device_info
                ELSE /\ device_info' = [hostname |-> HostnameOrHost(found_hostname.v, host),
                                        platform |-> Str("Arista EOS"),
                                        model |-> model.v,
                                        serial_number |-> serial_number.v,
                                        version |-> version.v]
                     /\ pc' = "fetch"
                     /\ UNCHANGED raised
    /\ UNCHANGED <<script, host, threshold, interface_status, interface_descriptions,
                   interface_rates, interface_errors, interfaces,
                   active_interfaces_count, high_utilization_count,
                   error_interfaces_count, loop_errors, varsOther, result, stdout,
                   stderr, exit_code>>

\* lines 62, 114-166: connection.execute raises (the device is unreachable, the
\* command is refused); the exception leaves the function wrapped (line 297)
AristaExecuteFails ==
    /\ script = "arista" /\ pc \in {"start", "fetch"}
    /\ raised' = RuntimeError(AristaFailed,
                              Exc("ConnectionError", <<"unable to connect to eAPI">>))
    /\ pc' = "raised"
    /\ UNCHANGED <<script, host, varsArista, varsOther, result, stdout, stderr,
                   exit_code>>

\* lines 114-179: the five tables are fetched and the counters start at zero. The
\* entries of the tables are drawn when the loop reaches their identifier: each
\* is read once, in the pass for that identifier.
AristaFetchTables ==
    /\ script = "arista" /\ pc = "fetch"
    /\ pc' = "loop"
    /\ UNCHANGED <<script, host, varsArista, varsOther, varsMain>>

\* lines 181-270: one pass of the for loop, for the next entry of the status table
AristaProcessInterface ==
    /\ script = "arista" /\ pc = "loop"
    /\ Len(interface_status) < MaxInterfaces
    /\ \E raw \in RawEntries :
         LET name == <<raw.prefix, Len(interface_status) + 1>>
             descriptions1 == WithEntry(interface_descriptions, name, raw.description)
             rates1 == WithEntry(interface_rates, name, raw.rates)
             errors1 == WithEntry(interface_errors, name, raw.errors)
             body == LoopBody(name, raw.status, descriptions1, rates1, errors1, threshold)
         IN  /\ interface_status' = Append(interface_status, <<name, raw.status>>)
             /\ interface_descriptions' = descriptions1
             /\ interface_rates' = rates1
             /\ interface_errors' = errors1
             /\ interfaces' = IF body.appended THEN Append(interfaces, body.item)
                              ELSE interfaces
             /\ active_interfaces_count' = active_interfaces_count + body.active
             /\ high_utilization_count' = high_utilization_count + body.high
             /\ error_interfaces_count' = error_interfaces_count + body.errs
             /\ loop_errors' = IF body.exc # "none"
                               THEN Append(loop_errors, <<name, body.exc>>)
                               ELSE loop_errors
    /\ UNCHANGED <<script, pc, host, threshold, version_data, device_info, varsOther,
                   varsMain>>

\* lines 272-294: the loop is over; sort, summary, timestamp, return
AristaReturn ==
    /\ script = "arista" /\ pc = "loop"
    /\ interfaces' = SortDesc(interfaces)
    /\ result' = [device |-> device_info,
                  timestamp |-> "now",
                  interfaces |-> interfaces',
                  summary |-> SummaryOf(interfaces', active_interfaces_count,
                                        high_utilization_count, error_interfaces_count)]
    /\ pc' = "returned"
    /\ UNCHANGED <<script, host, threshold, version_data, device_info, interface_status,
                   interface_descriptions, interface_rates, interface_errors,
                   active_interfaces_count, high_utilization_count,
                   error_interfaces_count, loop_errors, varsOther, raised, stdout,
                   stderr, exit_code>>

\* main, lines 330-336: the report is printed, exit code 0
AristaMainReport ==
    /\ script = "arista" /\ pc = "returned"
    /\ stdout' = result
    /\ exit_code' = 0
    /\ pc' = "exit"
    /\ UNCHANGED <<script, host, varsArista, varsOther, result, raised, stderr>>

\* main, lines 338-350: the error document is printed, exit code 1
ErrorDocument(e) == [error |-> e.msg, success |-> FALSE]

AristaMainError ==
    /\ script = "arista" /\ pc = "raised"
    /\ stderr' = TRUE
    /\ stdout' = ErrorDocument(raised)
    /\ exit_code' = 1
    /\ pc' = "exit"
    /\ UNCHANGED <<script, host, varsArista, varsOther, result, raised>>

----------------------------------------------------------------------------
(* cisco-ios-xe-bgp-status.py: get_bgp_neighbors *)

\* entries in the answer to "show ip bgp neighbors"
MaxNeighbors == 2

SeqsUpTo(S, n) == UNION {[1..k -> S] : k \in 0..n}

\* text.strip(): white space at both ends goes
WhiteSpace == {" ", "\n"}
RECURSIVE Strip(_)
Strip(text) ==
    IF text = <<>> THEN text
    ELSE IF Head(text) \in WhiteSpace THEN Strip(Tail(text))
    ELSE IF text[Len(text)] \in WhiteSpace THEN Strip(SubSeq(text, 1, Len(text) - 1))
    ELSE text

\* text.replace(needle, "")
RECURSIVE Removed(_, _)
Removed(text, needle) ==
    IF Len(text) < Len(needle) THEN text
    ELSE IF SubSeq(text, 1, Len(needle)) = needle
         THEN Removed(SubSeq(text, Len(needle) + 1, Len(text)), needle)
    ELSE <<Head(text)>> \o Removed(Tail(text), needle)

\* a string kept as the sequence of its pieces
Text(pieces) == [t |-> "text", v |-> pieces]

\* line 96
PlatformOf(version_output) ==
    IF Contains(version_output, <<"IOS-XE">>) THEN Str("Cisco IOS-XE") ELSE Str("Cisco IOS")

\* lines 99-100
HostnameOf(output, h) ==
    LET hostname_output == Strip(output)
    IN  IF Contains(hostname_output, <<"hostname">>)
        THEN Text(Removed(hostname_output, <<"hostname", " ">>))
        ELSE Text(<<h>>)

\* a group of a regular expression search, or the default when nothing matched
NoMatch == NoValue
GroupOr(match, default) == IF match = NoMatch THEN default ELSE match

\* lines 107-111
BgpOf(summary_output) ==
    [local_as |-> GroupOr(summary_output.local_as, Str("Unknown")),
     router_id |-> GroupOr(summary_output.router_id, Str("Unknown"))]

\* lines 145-171: the entry of one section whose header matched neighbor_regex
NeighborInfo(section) ==
    [neighbor_ip |-> section.neighbor_ip,
     remote_as |-> section.remote_as,
     state |-> GroupOr(section.state, Str("Unknown")),
     uptime |-> GroupOr(section.uptime, Str("N/A")),
     prefixes_received |-> GroupOr(section.accepted, Whole(0)),
     prefixes_sent |-> GroupOr(section.announced, Whole(0)),
     description |-> GroupOr(section.description, Str(""))]

\* mutant of ParsedNeighbors: the list is built last section first
ParsedNeighborsLastFirst(sections) ==
    LET matched == SelectSeq(sections, LAMBDA x : x.neighbor_ip # NoMatch)
    IN  [i \in 1..Len(matched) |-> NeighborInfo(matched[Len(matched) + 1 - i])]

\* lines 140-173: the sections whose header matches, in order
ParsedNeighbors(sections) ==
    LET matched == SelectSeq(sections, LAMBDA x : x.neighbor_ip # NoMatch)
    IN  [i \in 1..Len(matched) |-> NeighborInfo(matched[i])]

\* line 177
EstablishedSessions(list) ==
    Cardinality({i \in DOMAIN list : list[i].state = Str("Established")})

\* line 178
DownSessions(list) == Len(list) - EstablishedSessions(list)

\* lines 183-198
BgpReport(h, p, b, list) ==
    [device |-> [hostname |-> h, platform |-> p],
     bgp |-> b,
     neighbors |-> list,
     summary |-> [total_neighbors |-> Len(list),
                  established_sessions |-> EstablishedSessions(list),
                  down_sessions |-> DownSessions(list)]]

NotConfigured ==
    [local_as |-> Str("Not configured"), router_id |-> Str("Not configured")]

\* lines 252-268, and the value lines 209-225 build from it
DegradedReport(h, p) ==
    [device |-> [hostname |-> h, platform |-> p],
     bgp |-> NotConfigured,
     neighbors |-> <<>>,
     summary |-> [total_neighbors |-> 0, established_sessions |-> 0, down_sessions |-> 0],
     status |-> "BGP not configured or not active on this device"]

\* mutant of DegradedInFunction: the report names the host argument and the default
\* platform, as the report of main does
DegradedInFunctionFromArguments(h) == DegradedReport(Text(<<h>>), Str("Cisco IOS-XE"))

\* lines 209-225: hostname and platform are the locals when they are assigned
DegradedInFunction(h) ==
    DegradedReport(IF hostname # NoValue THEN hostname ELSE Text(<<h>>),
                   IF platform # NoValue THEN platform ELSE Str("Cisco IOS-XE"))

\* line 208
IsInactiveSignature(msg) ==
    \/ Contains(msg, <<"No existing session">>)
    \/ Contains(msg, <<"BGP", " not active">>)
    \/ Contains(msg, <<"%", "BGP">>)

\* lines 202-227: what the except clauses make of an exception e
BgpExcept(e, h) ==
    IF e.class = "NoValidConnectionsError"
    THEN [returns |-> NoValue,
          raises |-> RuntimeError(<<"Failed to connect to device: ">>, e)]
    ELSE IF e.class = "AuthenticationException"
    THEN [returns |-> NoValue, raises |-> RuntimeError(<<"Authentication failed: ">>, e)]
    ELSE IF IsInactiveSignature(e.msg)
    THEN [returns |-> DegradedInFunction(h), raises |-> NoValue]
    ELSE [returns |-> NoValue,
          raises |-> RuntimeError(<<"Failed to retrieve ", "BGP",
                                    " neighbor information: ">>, e)]

\* lines 248-250
IsBgpRelated(e) ==
    /\ e.class # "NoValidConnectionsError"
    /\ e.class # "AuthenticationException"
    /\ (Contains(e.msg, <<"BGP">>) \/ Contains(e.msg, <<"No existing session">>))

(* What the Cisco device and the SSH library answer *)

VersionOutputs == { <<"Cisco IOS XE Software, ", "IOS-XE", " Software">>,
                    <<"Cisco IOS Software, C2960">> }
HostnameOutputs == { <<"hostname", " ", "R1", "\n">>, <<>> }
SummaryOutputs ==
    { [local_as |-> Str("65000"), router_id |-> Str("10.0.0.1")],
      [local_as |-> NoMatch, router_id |-> NoMatch] }

\* one section of "show ip bgp neighbors", as the regular expressions see it
SectionAnswers ==
    { [neighbor_ip |-> Str("192.168.1.1"), remote_as |-> Str("65001"),
       state |-> Str("Established"), uptime |-> Str("1d20h"),
       accepted |-> Whole(545), announced |-> Whole(123),
       description |-> Str("PEER-ROUTER2")],
      [neighbor_ip |-> Str("192.168.1.2"), remote_as |-> Str("65002"),
       state |-> Str("Idle"), uptime |-> NoMatch,
       accepted |-> NoMatch, announced |-> NoMatch, description |-> NoMatch],
      [neighbor_ip |-> Str("192.168.1.3"), remote_as |-> Str("65003"),
       state |-> NoMatch, uptime |-> NoMatch,
       accepted |-> Whole(0), announced |-> NoMatch, description |-> Str("")],
      [neighbor_ip |-> NoMatch, remote_as |-> NoMatch,
       state |-> Str("Established"), uptime |-> Str("00:10:00"),
       accepted |-> Whole(7), announced |-> Whole(7), description |-> NoMatch] }

\* exceptions of ssh_client.connect, and of exec_command and stdout.read
SshFailures ==
    { Exc("SSHException", <<"No existing session">>),
      Exc("SSHException", <<"BGP", " not active">>),
      Exc("SSHException", <<"%", "BGP", " is not running">>),
      Exc("SSHException", <<"Timeout opening channel.">>),
      Exc("timeout", <<"timed out">>) }
ConnectFailures ==
    { Exc("NoValidConnectionsError", <<"Unable to connect to port 22 on ", "10.1.1.1">>),
      Exc("AuthenticationException", <<"Authentication failed.">>) }
    \cup SshFailures

(* Steps of get_bgp_neighbors and of main *)

\* lines 82-91
BgpConnect ==
    /\ script = "cisco" /\ pc = "start"
    /\ session' = "open"
    /\ pc' = "version"
    /\ UNCHANGED <<script, host, varsArista, varsReply, varsDns, varsCisco, varsJuniper, exc, neighbors,
                   varsMain>>

\* lines 94-96
BgpShowVersion ==
    /\ script = "cisco" /\ pc = "version"
    /\ \E version_output \in VersionOutputs : platform' = PlatformOf(version_output)
    /\ pc' = "hostname"
    /\ UNCHANGED <<script, host, varsArista, varsReply, varsDns, specific_neighbor, hostname, bgp,
                   varsJuniper, varsSession, varsMain>>

\* lines 98-100
BgpShowHostname ==
    /\ script = "cisco" /\ pc = "hostname"
    /\ \E hostname_output \in HostnameOutputs : hostname' = HostnameOf(hostname_output, host)
    /\ pc' = "summary"
    /\ UNCHANGED <<script, host, varsArista, varsReply, varsDns, specific_neighbor, platform, bgp,
                   varsJuniper, varsSession, varsMain>>

\* lines 103-111
BgpShowSummary ==
    /\ script = "cisco" /\ pc = "summary"
    /\ \E summary_output \in SummaryOutputs : bgp' = BgpOf(summary_output)
    /\ pc' = "neighbors"
    /\ UNCHANGED <<script, host, varsArista, varsReply, varsDns, specific_neighbor, platform, hostname,
                   varsJuniper, varsSession, varsMain>>

\* lines 114-200: the neighbors command (for one neighbor or for all), the parse of
\* its sections, the summary, close and return
BgpShowNeighbors ==
    /\ script = "cisco" /\ pc = "neighbors"
    /\ \E sections \in SeqsUpTo(SectionAnswers, MaxNeighbors) :
         /\ neighbor_sections' = sections
         /\ neighbors' = ParsedNeighbors(sections)
         /\ result' = BgpReport(hostname, platform, bgp, neighbors')
    /\ session' = "closed"
    /\ pc' = "returned"
    /\ UNCHANGED <<script, host, varsArista, rpc, varsDns, varsCisco, varsJuniper, exc, raised,
                   stdout, stderr, exit_code>>

\* lines 84-119 and 202-227: connect, exec_command or read raises, and the except
\* clauses return the degraded report or raise a RuntimeError
BgpFails ==
    /\ script = "cisco"
    /\ pc \in {"start", "version", "hostname", "summary", "neighbors"}
    /\ \E e \in IF pc = "start" THEN ConnectFailures ELSE SshFailures :
         /\ exc' = e
         /\ result' = BgpExcept(e, host).returns
         /\ raised' = BgpExcept(e, host).raises
         /\ pc' = IF BgpExcept(e, host).raises = NoValue THEN "returned" ELSE "raised"
    /\ UNCHANGED <<script, host, varsArista, varsReply, varsDns, varsCisco, varsJuniper, session, neighbors,
                   stdout, stderr, exit_code>>

\* main, lines 243-245
BgpMainReport ==
    /\ script = "cisco" /\ pc = "returned"
    /\ stdout' = result
    /\ exit_code' = 0
    /\ pc' = "exit"
    /\ UNCHANGED <<script, host, varsArista, varsOther, result, raised, stderr>>

\* main, lines 246-285: the exception is taken for "BGP not configured" and the
\* degraded report is printed, or it is raised again and the error document printed
BgpMainExcept ==
    /\ script = "cisco" /\ pc = "raised"
    /\ IF IsBgpRelated(raised)
       THEN /\ stdout' = DegradedReport(Text(<<host>>), Str("Cisco IOS-XE"))
            /\ exit_code' = 0
            /\ UNCHANGED stderr
       ELSE /\ stdout' = ErrorDocument(raised)
            /\ stderr' = TRUE
            /\ exit_code' = 1
    /\ pc' = "exit"
    /\ UNCHANGED <<script, host, varsArista, varsOther, result, raised>>

----------------------------------------------------------------------------
(* juniper-junos-ospf-status.py: get_ospf_neighbors *)

\* dev.facts[key], line 95, 97, 98: a key the mapping lacks raises KeyError
FactOf(f, key) ==
    IF key \in DOMAIN f
    THEN [exc |-> NoValue, v |-> f[key]]
    ELSE [exc |-> Exc("KeyError", <<"'", key, "'">>), v |-> NoValue]

\* lines 94-99: the fields are read in the order hostname, model, version
DeviceInfoOf(f) ==
    IF FactOf(f, "hostname").exc # NoValue THEN FactOf(f, "hostname")
    ELSE IF FactOf(f, "model").exc # NoValue THEN FactOf(f, "model")
    ELSE IF FactOf(f, "version").exc # NoValue THEN FactOf(f, "version")
    ELSE [exc |-> NoValue,
          v |-> [hostname |-> FactOf(f, "hostname").v,
                 platform |-> Str("Juniper JUNOS"),
                 model |-> FactOf(f, "model").v,
                 version |-> FactOf(f, "version").v]]

\* lines 131-139: findtext gave None for a child the node lacks
OspfNeighborInfo(nbr) ==
    [neighbor_id |-> nbr.neighbor_id,
     neighbor_address |-> nbr.neighbor_address,
     interface |-> nbr.interface_name,
     state |-> nbr.ospf_neighbor_state,
     area |-> nbr.ospf_area,
     adjacency_time |-> nbr.neighbor_adjacency_time,
     dead_time |-> nbr.ospf_neighbor_dead_time]

\* mutant of UpdateCounters: a node without a state is counted by neither counter
UpdateCountersSkippingMissing(nbr, acc) ==
    IF nbr.ospf_neighbor_state = Str("Full")
    THEN [acc EXCEPT !.areas = @ \cup {nbr.ospf_area}, !.full_state_count = @ + 1]
    ELSE IF nbr.ospf_neighbor_state = Null
    THEN [acc EXCEPT !.areas = @ \cup {nbr.ospf_area}]
    ELSE [acc EXCEPT !.areas = @ \cup {nbr.ospf_area}, !.non_full_state_count = @ + 1]

\* lines 124-128
UpdateCounters(nbr, acc) ==
    IF nbr.ospf_neighbor_state = Str("Full")
    THEN [acc EXCEPT !.areas = @ \cup {nbr.ospf_area}, !.full_state_count = @ + 1]
    ELSE [acc EXCEPT !.areas = @ \cup {nbr.ospf_area}, !.non_full_state_count = @ + 1]

\* lines 108-141: the loop over the nodes of the reply
RECURSIVE ProcessNeighbors(_, _)
ProcessNeighbors(nodes, acc) ==
    IF nodes = <<>> THEN acc
    ELSE LET counted == UpdateCounters(Head(nodes), acc)
         IN  ProcessNeighbors(Tail(nodes),
                 [counted EXCEPT !.neighbors = Append(@, OspfNeighborInfo(Head(nodes)))])

\* lines 108-111
BeforeLoop ==
    [neighbors |-> <<>>, areas |-> {}, full_state_count |-> 0, non_full_state_count |-> 0]

\* lines 144-164; list(areas) is kept as the set it lists
OspfReport(info, instance, acc) ==
    [device |-> info,
     timestamp |-> "now",
     ospf_instance |-> instance,
     neighbors |-> acc.neighbors,
     summary |-> [total_neighbors |-> Len(acc.neighbors),
                  full_state_neighbors |-> acc.full_state_count,
                  non_full_state_neighbors |-> acc.non_full_state_count,
                  areas |-> acc.areas]]

(* What the Juniper device and the NETCONF library answer *)

FullFacts ==
    [hostname |-> Str("jr1"), model |-> Str("MX480"), version |-> Str("20.4R3")]
Without(f, key) == [k \in DOMAIN f \ {key} |-> f[k]]

\* dev.facts: every fact gathered, one not gathered (None), one or all absent
FactsAnswers ==
    { FullFacts,
      [FullFacts EXCEPT !.model = Null],
      Without(FullFacts, "hostname"),
      Without(FullFacts, "model"),
      Without(FullFacts, "version"),
      Without(Without(FullFacts, "model"), "version") }

\* one ospf-neighbor node of the reply, by the text of its children (Null: no child)
NodeAnswers ==
    { [neighbor_id |-> Str("10.0.0.2"), neighbor_address |-> Str("192.168.1.2"),
       interface_name |-> Str("ge-0/0/0.0"), ospf_neighbor_state |-> Str("Full"),
       ospf_area |-> Str("0.0.0.0"), neighbor_adjacency_time |-> Str("1d 02:03:04"),
       ospf_neighbor_dead_time |-> Str("35")],
      [neighbor_id |-> Str("10.0.0.3"), neighbor_address |-> Str("192.168.1.3"),
       interface_name |-> Str("ge-0/0/1.0"), ospf_neighbor_state |-> Str("Init"),
       ospf_area |-> Str("0.0.0.1"), neighbor_adjacency_time |-> Null,
       ospf_neighbor_dead_time |-> Str("38")],
      [neighbor_id |-> Str("10.0.0.4"), neighbor_address |-> Null,
       interface_name |-> Null, ospf_neighbor_state |-> Null,
       ospf_area |-> Null, neighbor_adjacency_time |-> Null,
       ospf_neighbor_dead_time |-> Null],
      [neighbor_id |-> Str("10.0.0.5"), neighbor_address |-> Str("192.168.1.5"),
       interface_name |-> Str("ge-0/0/2.0"), ospf_neighbor_state |-> Str("Full"),
       ospf_area |-> Str("0.0.0.1"), neighbor_adjacency_time |-> Str("00:10:00"),
       ospf_neighbor_dead_time |-> Null] }

\* exceptions of dev.open and of the RPC
OpenFailures ==
    { Exc("ConnectTimeoutError", <<"ConnectTimeoutError(", "10.1.1.1", ")">>),
      Exc("ConnectAuthError", <<"ConnectAuthError(", "10.1.1.1", ")">>) }
RpcFailures ==
    { Exc("RpcError", <<"RpcError(instance not running)">>),
      Exc("RpcTimeoutError", <<"RpcTimeoutError(timeout: 30)">>) }

OspfPrefix == <<"Failed to retrieve OSPF neighbor information: ">>

(* Steps of get_ospf_neighbors and of main *)

\* lines 90-91
OspfOpen ==
    /\ script = "juniper" /\ pc = "start"
    /\ session' = "open"
    /\ pc' = "facts"
    /\ UNCHANGED <<script, host, varsArista, varsReply, varsDns, varsCisco, varsJuniper, exc, neighbors,
                   varsMain>>

\* lines 94-99 and 168-169: the device block, or the KeyError of an absent fact
\* raised again as RuntimeError
OspfDeviceInfo ==
    /\ script = "juniper" /\ pc = "facts"
    /\ \E f \in FactsAnswers :
         /\ facts' = f
         /\ IF DeviceInfoOf(f).exc = NoValue
            THEN /\ device_info' = DeviceInfoOf(f).v
                 /\ pc' = "rpc"
                 /\ UNCHANGED <<exc, raised>>
            ELSE /\ exc' = DeviceInfoOf(f).exc
                 /\ raised' = RuntimeError(OspfPrefix, DeviceInfoOf(f).exc)
                 /\ pc' = "raised"
                 /\ UNCHANGED device_info
    /\ UNCHANGED <<script, host, threshold, version_data, interface_status,
                   interface_descriptions, interface_rates, interface_errors, interfaces,
                   active_interfaces_count, high_utilization_count,
                   error_interfaces_count, loop_errors, varsCisco, varsReply, varsDns, full_state_count,
                   non_full_state_count, areas, session, neighbors, result, stdout,
                   stderr, exit_code>>

\* lines 102-166: the RPC (for one area or for all), the loop over its neighbor
\* nodes, the summary, close and return
OspfNeighborInformation ==
    /\ script = "juniper" /\ pc = "rpc"
    /\ \E reply \in SeqsUpTo(NodeAnswers, MaxNeighbors) :
         LET after == ProcessNeighbors(reply, BeforeLoop)
         IN  /\ rpc' = reply
             /\ neighbors' = after.neighbors
             /\ areas' = after.areas
             /\ full_state_count' = after.full_state_count
             /\ non_full_state_count' = after.non_full_state_count
             /\ result' = OspfReport(device_info, "master", after)
    /\ session' = "closed"
    /\ pc' = "returned"
    /\ UNCHANGED <<script, host, varsArista, neighbor_sections, varsDns, varsCisco, facts, exc, raised, stdout,
                   stderr, exit_code>>

\* lines 90-91, 102-105 and 168-169: open or the RPC raises, and the exception is
\* raised again as RuntimeError
OspfFails ==
    /\ script = "juniper" /\ pc \in {"start", "rpc"}
    /\ \E e \in IF pc = "start" THEN OpenFailures ELSE RpcFailures :
         /\ exc' = e
         /\ raised' = RuntimeError(OspfPrefix, e)
    /\ pc' = "raised"
    /\ UNCHANGED <<script, host, varsArista, varsReply, varsDns, varsCisco, varsJuniper, session, neighbors,
                   result, stdout, stderr, exit_code>>

\* main, lines 186-199
OspfMainReport ==
    /\ script = "juniper" /\ pc = "returned"
    /\ stdout' = result
    /\ exit_code' = 0
    /\ pc' = "exit"
    /\ UNCHANGED <<script, host, varsArista, varsOther, result, raised, stderr>>

\* main, lines 201-213
OspfMainError ==
    /\ script = "juniper" /\ pc = "raised"
    /\ stderr' = TRUE
    /\ stdout' = ErrorDocument(raised)
    /\ exit_code' = 1
    /\ pc' = "exit"
    /\ UNCHANGED <<script, host, varsArista, varsOther, result, raised>>

----------------------------------------------------------------------------
(* dns-domain-checker.py *)

\* what socket.gethostbyname does: an address, the lookup error, another exception
Addresses == {Str("93.184.216.34")}
LookupError == Exc("gaierror", <<"[Errno -2] Name or service not known">>)
OtherErrors == { Exc("UnicodeError", <<"label empty or too long">>) }
Resolutions == Addresses \cup {LookupError} \cup OtherErrors

\* mutant of CheckDnsRecordExists: the lookup error is not caught
CheckDnsRecordExistsNotCatching(resolution) ==
    IF resolution.t = "exc"
    THEN [returns |-> NoValue, raises |-> resolution]
    ELSE [returns |-> <<TRUE, resolution>>, raises |-> NoValue]

\* lines 69-75
CheckDnsRecordExists(resolution) ==
    IF resolution.t = "exc"
    THEN IF resolution.class = "gaierror"
         THEN [returns |-> <<FALSE, Null>>, raises |-> NoValue]
         ELSE [returns |-> NoValue, raises |-> resolution]
    ELSE [returns |-> <<TRUE, resolution>>, raises |-> NoValue]

\* lines 102-107: the lines main prints; an address that is None or empty is
\* not printed
DnsLines(name, found, address) ==
    IF found
    THEN <<<<"DNS record for ", name.s, " exists.">>>>
         \o (IF address = Null \/ address = Str("") THEN <<>>
             ELSE <<<<"IP address: ", address.s>>>>)
    ELSE <<<<"DNS record for ", name.s, " does not exist.">>>>

\* line 99: the call of check_dns_record_exists; an exception it does not catch
\* leaves main
DnsCheck ==
    /\ script = "dns" /\ pc = "start"
    /\ \E resolution \in Resolutions :
         LET call == CheckDnsRecordExists(resolution)
         IN  /\ exc' = IF resolution.t = "exc" THEN resolution ELSE NoValue
             /\ IF call.raises = NoValue
                THEN /\ exists' = call.returns[1]
                     /\ ip_address' = call.returns[2]
                     /\ pc' = "returned"
                     /\ UNCHANGED raised
                ELSE /\ raised' = call.raises
                     /\ pc' = "raised"
                     /\ UNCHANGED <<exists, ip_address>>
    /\ UNCHANGED <<script, host, varsArista, varsCisco, varsJuniper, session, neighbors,
                   varsReply, result, stdout, stderr, exit_code>>

\* main, lines 101-113
DnsMainPrint ==
    /\ script = "dns" /\ pc = "returned"
    /\ stdout' = DnsLines(hostname, exists, ip_address)
    /\ exit_code' = 0
    /\ pc' = "exit"
    /\ UNCHANGED <<script, host, varsArista, varsOther, result, raised, stderr>>

\* __main__, lines 119-126
DnsMainError ==
    /\ script = "dns" /\ pc = "raised"
    /\ stderr' = TRUE
    /\ exit_code' = 1
    /\ pc' = "exit"
    /\ UNCHANGED <<script, host, varsArista, varsOther, result, raised, stdout>>

Next ==
    \/ DnsCheck
    \/ DnsMainPrint
    \/ DnsMainError
    \/ OspfOpen
    \/ OspfDeviceInfo
    \/ OspfNeighborInformation
    \/ OspfFails
    \/ OspfMainReport
    \/ OspfMainError
    \/ BgpConnect
    \/ BgpShowVersion
    \/ BgpShowHostname
    \/ BgpShowSummary
    \/ BgpShowNeighbors
    \/ BgpFails
    \/ BgpMainReport
    \/ BgpMainExcept
    \/ AristaShowVersion
    \/ AristaExecuteFails
    \/ AristaFetchTables
    \/ AristaProcessInterface
    \/ AristaReturn
    \/ AristaMainReport
    \/ AristaMainError

Spec == Init /\ [][Next]_vars

----------------------------------------------------------------------------
(* Properties of arista-eos-port-utilization.py *)

AristaReported == script = "arista" /\ result # NoValue

\* the names of the status table, in order, and the entry of a name
StatusNames == [k \in 1..Len(interface_status) |-> interface_status[k][1]]
StatusEntryOf(name) == interface_status[name[2]][2]
EthernetNames ==
    {StatusNames[k] : k \in {j \in 1..Len(interface_status) :
                                 StatusNames[j][1] = "Ethernet"}}
ItemsNamed(items, name) == {i \in DOMAIN items : items[i].name = name}

\* a value float() and int() convert: a number, or a string of digits
Convertible(v) == v.t = "num" \/ (v.t = "str" /\ v.s \in NumericStrings)
NumberOf(v) == IF v.t = "num" THEN v ELSE Whole(StrValue(v.s))

\* the number the device supplies for a field of a side-table entry, 0 when the
\* entry or the field is missing or the value is no number
Supplied(table, name, key) ==
    IF name \in DOMAIN table /\ table[name].t = "map"
       /\ key \in DOMAIN table[name].m /\ Convertible(table[name].m[key])
    THEN NumberOf(table[name].m[key])
    ELSE Zero

\* every table entry of the name is a mapping, or missing
EntriesAreMappings(name) ==
    /\ StatusEntryOf(name).t = "map"
    /\ \A table \in {interface_descriptions, interface_rates, interface_errors} :
         name \in DOMAIN table => table[name].t = "map"

\* C3 (as stated): each classification counter of the summary equals the number of
\* output items with that classification, for any input, malformed entries included.
C3_CountersMatchItems ==
    AristaReported =>
        LET items == result.interfaces
            summary == result.summary
        IN  /\ summary.active_interfaces =
                 Cardinality({i \in DOMAIN items : items[i].status = Str("up")})
            /\ summary.high_utilization_interfaces =
                 Cardinality({i \in DOMAIN items : items[i].high_utilization})
            /\ summary.error_interfaces =
                 Cardinality({i \in DOMAIN items :
                                 \/ RatGT(items[i].input_errors, Zero)
                                 \/ RatGT(items[i].output_errors, Zero)})

\* C4 (as stated): every identifier of the status table that starts with
\* "Ethernet" yields exactly one output item, whatever the shape of its side-table
\* entries, and the run is not aborted.
C4_OneItemPerEthernetIdentifier ==
    /\ script = "arista" /\ pc \in {"loop", "returned", "exit"} =>
         \A name \in EthernetNames : Cardinality(ItemsNamed(interfaces, name)) = 1
    /\ script = "arista" /\ pc = "raised" => interface_status = <<>>

\* the utilization the claim C7 prescribes for a rate and a bandwidth
PrescribedUtilization(rate, bandwidth_mbps) ==
    IF RatGT(bandwidth_mbps, Zero)
    THEN Round2(Rat(rate.n * bandwidth_mbps.d * 100, rate.d * bandwidth_mbps.n))
    ELSE Zero

UtilizationIsPrescribed(it) ==
    /\ it.input_utilization =
         PrescribedUtilization(Supplied(interface_rates, it.name, "inRate"),
                               it.bandwidth_mbps)
    /\ it.output_utilization =
         PrescribedUtilization(Supplied(interface_rates, it.name, "outRate"),
                               it.bandwidth_mbps)

NoDivisionByZero ==
    \A k \in 1..Len(loop_errors) : loop_errors[k][2] # "ZeroDivisionError"

\* C7 (as stated): every derived utilization is >= 0, equals
\* round(rate / bandwidth_mbps * 100, 2) when bandwidth_mbps > 0 and 0 otherwise,
\* and no division by zero occurs, negative rates and bandwidths included.
C7_UtilizationNonNegativeAndExact ==
    script = "arista" =>
        /\ \A i \in DOMAIN interfaces :
             /\ RatGE(interfaces[i].input_utilization, Zero)
             /\ RatGE(interfaces[i].output_utilization, Zero)
             /\ UtilizationIsPrescribed(interfaces[i])
        /\ NoDivisionByZero

\* C7 (amended): every derived utilization equals
\* round(rate / bandwidth_mbps * 100, 2) when bandwidth_mbps > 0 and 0 otherwise,
\* is >= 0 whenever the rate is >= 0, and no division by zero occurs.
C7_UtilizationExact ==
    script = "arista" =>
        /\ \A i \in DOMAIN interfaces :
             LET it == interfaces[i]
             IN  /\ UtilizationIsPrescribed(it)
                 /\ RatGE(Supplied(interface_rates, it.name, "inRate"), Zero)
                      => RatGE(it.input_utilization, Zero)
                 /\ RatGE(Supplied(interface_rates, it.name, "outRate"), Zero)
                      => RatGE(it.output_utilization, Zero)
        /\ NoDivisionByZero

\* C7 witness: the report holds an item with a positive bandwidth and a positive
\* utilization, and an item with a rate but a bandwidth that is not positive.
C7_Witness ==
    /\ AristaReported
    /\ \E i \in DOMAIN interfaces :
         /\ RatGT(interfaces[i].bandwidth_mbps, Zero)
         /\ RatGT(interfaces[i].input_utilization, Zero)
    /\ \E i \in DOMAIN interfaces :
         /\ ~RatGT(interfaces[i].bandwidth_mbps, Zero)
         /\ RatGT(interfaces[i].input_rate_mbps, Zero)
         /\ interfaces[i].input_utilization = Zero

\* the scenario of C8: one status entry, one rates entry, threshold 70
C8_Scenario ==
    /\ AristaReported
    /\ threshold = 70
    /\ interface_status =
         << << <<"Ethernet", 1>>,
               Map([bandwidth |-> Whole(1000000000), linkStatus |-> Str("up")]) >> >>
    /\ DOMAIN interface_rates = {<<"Ethernet", 1>>}
    /\ interface_rates[<<"Ethernet", 1>>] =
         Map([inRate |-> Whole(700), outRate |-> Whole(100)])
    /\ DOMAIN interface_descriptions = {}
    /\ DOMAIN interface_errors = {}

\* C8 (as stated): in the scenario the single item has bandwidth_mbps = 1000,
\* input_utilization = 70.0, high_utilization = false and output_utilization = 0.01.
C8_ScenarioAsStated ==
    C8_Scenario =>
        /\ Len(result.interfaces) = 1
        /\ result.interfaces[1].bandwidth_mbps = Whole(1000)
        /\ result.interfaces[1].input_utilization = Whole(70)
        /\ result.interfaces[1].high_utilization = FALSE
        /\ result.interfaces[1].output_utilization = Num(1, 100)

\* C8 (amended): in the scenario the single item has bandwidth_mbps = 1000,
\* input_utilization = 70.0, high_utilization = false (70.0 is not > 70) and
\* output_utilization = 10.0 (100 / 1000 * 100).
C8_ScenarioOutput ==
    C8_Scenario =>
        /\ Len(result.interfaces) = 1
        /\ result.interfaces[1].bandwidth_mbps = Whole(1000)
        /\ result.interfaces[1].input_utilization = Whole(70)
        /\ result.interfaces[1].high_utilization = FALSE
        /\ result.interfaces[1].output_utilization = Whole(10)

\* C8 witness: the scenario has been run and its report printed.
C8_Witness == C8_Scenario /\ pc = "exit" /\ stdout = result

\* what the status and descriptions tables hold for an item
TablesCarriedBy(it) ==
    LET status == StatusEntryOf(it.name)
    IN  /\ \E k \in 1..Len(interface_status) : StatusNames[k] = it.name
        /\ it.name \in DOMAIN interface_descriptions
             /\ "description" \in DOMAIN interface_descriptions[it.name].m
             => it.description = interface_descriptions[it.name].m.description
        /\ "linkStatus" \in DOMAIN status.m => it.status = status.m.linkStatus
        /\ "bandwidth" \in DOMAIN status.m /\ status.m.bandwidth.t = "num"
             => it.bandwidth_mbps = Rat(status.m.bandwidth.n, 1000000)

\* C9: an item whose identifier has no entry in the rates (errors) table has both
\* rates (both error counters) equal to 0, and its name, description, status and
\* bandwidth_mbps carry the values of the status and descriptions tables.
C9_AbsentSideTableEntry ==
    script = "arista" =>
        \A i \in DOMAIN interfaces :
            LET it == interfaces[i]
            IN  /\ it.name \notin DOMAIN interface_rates
                     => /\ it.input_rate_mbps = Zero
                        /\ it.output_rate_mbps = Zero
                        /\ TablesCarriedBy(it)
                /\ it.name \notin DOMAIN interface_errors
                     => /\ it.input_errors = Zero
                        /\ it.output_errors = Zero
                        /\ TablesCarriedBy(it)

\* C9 witness: the report holds an item without a rates entry that has a
\* description, a status and a bandwidth, behind an identifier that has rates.
C9_Witness ==
    /\ AristaReported
    /\ \E i \in DOMAIN interfaces :
         /\ interfaces[i].name \notin DOMAIN interface_rates
         /\ interfaces[i].name[2] > 1
         /\ <<"Ethernet", 1>> \in DOMAIN interface_rates
         /\ interfaces[i].description = Str("uplink")
         /\ interfaces[i].status = Str("up")
         /\ interfaces[i].bandwidth_mbps = Whole(1000)

\* a rates field that holds a value of a wrong type or an unparsable value
WrongType(v) == v.t # "num"
\* a rates field that holds a value float() cannot convert
Unconvertible(v) == ~Convertible(v)

RatesField(name, key) == interface_rates[name].m[key]
HasRatesField(name, key) ==
    /\ name \in DOMAIN interface_rates
    /\ interface_rates[name].t = "map"
    /\ key \in DOMAIN interface_rates[name].m

\* every Ethernet identifier whose table entries are mappings is in the output
\* once, with the rates the device supplies for it, and its pass raised nothing
ItemsUnaffected ==
    \A name \in EthernetNames :
        EntriesAreMappings(name) =>
            /\ Cardinality(ItemsNamed(interfaces, name)) = 1
            /\ \A i \in ItemsNamed(interfaces, name) :
                 /\ interfaces[i].input_rate_mbps =
                      Round2(Supplied(interface_rates, name, "inRate"))
                 /\ interfaces[i].output_rate_mbps =
                      Round2(Supplied(interface_rates, name, "outRate"))
            /\ \A k \in 1..Len(loop_errors) : loop_errors[k][1] # name

\* C10 (as stated): an item whose rate field has a wrong type or an unparsable
\* value is in the output with that rate equal to 0; the other items have their
\* own values and no exception is raised.
C10_WrongTypeRateIsZero ==
    script = "arista" =>
        /\ \A name \in EthernetNames : \A key \in {"inRate", "outRate"} :
             /\ EntriesAreMappings(name)
             /\ HasRatesField(name, key)
             /\ WrongType(RatesField(name, key))
             => \E i \in ItemsNamed(interfaces, name) :
                    IF key = "inRate" THEN interfaces[i].input_rate_mbps = Zero
                    ELSE interfaces[i].output_rate_mbps = Zero
        /\ ItemsUnaffected
        /\ EthernetNames # {} => raised = NoValue

\* C10 (amended): an item whose rate field holds a value float() cannot convert
\* (null, a list, a mapping, a string that is no number) is in the output with
\* that rate equal to 0; the other items have their own values and no exception
\* is raised.
C10_UnconvertibleRateIsZero ==
    script = "arista" =>
        /\ \A name \in EthernetNames : \A key \in {"inRate", "outRate"} :
             /\ EntriesAreMappings(name)
             /\ HasRatesField(name, key)
             /\ Unconvertible(RatesField(name, key))
             => \E i \in ItemsNamed(interfaces, name) :
                    IF key = "inRate" THEN interfaces[i].input_rate_mbps = Zero
                    ELSE interfaces[i].output_rate_mbps = Zero
        /\ ItemsUnaffected
        /\ EthernetNames # {} => raised = NoValue

\* C10 witness: the report holds an item whose inRate is a string that is no
\* number, with rate 0, next to an item with the rates the device supplied.
C10_Witness ==
    /\ AristaReported
    /\ HasRatesField(<<"Ethernet", 1>>, "inRate")
    /\ RatesField(<<"Ethernet", 1>>, "inRate") = Str("abc")
    /\ \E i, j \in DOMAIN interfaces :
         /\ interfaces[i].name = <<"Ethernet", 1>>
         /\ interfaces[i].input_rate_mbps = Zero
         /\ interfaces[j].name = <<"Ethernet", 2>>
         /\ interfaces[j].input_rate_mbps = Whole(700)

----------------------------------------------------------------------------
(* Claims about the Cisco BGP script *)

\* the exception the SSH library raised carries the subsystem-inactive signature
InactiveSignal ==
    /\ exc # NoValue
    /\ \/ Contains(exc.msg, <<"No existing session">>)
       \/ Contains(exc.msg, <<"BGP", " not active">>)
       \/ Contains(exc.msg, <<"%", "BGP">>)

CiscoExited == script = "cisco" /\ pc = "exit"

\* C1: every exception of the SSH library other than the subsystem-inactive
\* signature ends the run with the two-field error document and exit code 1,
\* never with the degraded empty report and exit code 0
C1_FetchFailureIsFatal ==
    (CiscoExited /\ exc # NoValue /\ ~InactiveSignal) =>
        /\ exit_code = 1
        /\ DOMAIN stdout = {"error", "success"}
        /\ stdout.success = FALSE

\* C2: when the SSH library raises the subsystem-inactive signal at any point of
\* get_bgp_neighbors, the output is a report with no neighbors, a summary of
\* zeros, a status field, the hostname and platform that were fetched before
\* the signal (else the host argument and the default platform), and the exit
\* code is 0
C2_InactiveSignalGivesEmptyReport ==
    (CiscoExited /\ InactiveSignal) =>
        /\ exit_code = 0
        /\ "status" \in DOMAIN stdout
        /\ stdout.neighbors = <<>>
        /\ stdout.summary = [total_neighbors |-> 0, established_sessions |-> 0,
                             down_sessions |-> 0]
        /\ stdout.device.hostname = IF hostname # NoValue THEN hostname
                                    ELSE Text(<<host>>)
        /\ stdout.device.platform = IF platform # NoValue THEN platform
                                    ELSE Str("Cisco IOS-XE")

\* the signal came after the hostname R1 and the platform were fetched
C2_Witness ==
    /\ CiscoExited /\ InactiveSignal
    /\ hostname = Text(<<"R1">>)
    /\ platform = Str("Cisco IOS")
    /\ bgp # NoValue
    /\ stdout.device = [hostname |-> Text(<<"R1">>), platform |-> Str("Cisco IOS")]
    /\ exit_code = 0

----------------------------------------------------------------------------
(* Claims about the device block and the summary counters *)

IdentityKeys == {"hostname", "model", "version"}

\* the key of the "show version" answer that feeds a field of the device block
VersionKey(field) == IF field = "model" THEN "modelName" ELSE field

\* C5: an identity field (hostname, model, version) missing from the identity
\* input is reported as the literal "Unknown" and no exception is raised, in the
\* Arista report (identity from "show version") and in the Juniper report
\* (identity from the device facts)
C5_MissingIdentityIsUnknown ==
    /\ (script = "arista" /\ version_data.t = "map") =>
           /\ device_info # NoValue
           /\ \A field \in IdentityKeys :
                  VersionKey(field) \notin DOMAIN version_data.m =>
                      device_info[field] = Str("Unknown")
    /\ (script = "juniper" /\ facts # NoValue) =>
           /\ device_info # NoValue
           /\ raised = NoValue \/ exc.class # "KeyError"
           /\ \A field \in IdentityKeys :
                  (field \notin DOMAIN facts \/ facts[field] = Null) =>
                      device_info[field] = Str("Unknown")

\* C6: in every Cisco report established_sessions + down_sessions =
\* total_neighbors = length of neighbors, and in every Juniper report
\* full_state_neighbors + non_full_state_neighbors = total_neighbors = length of
\* neighbors, entries without a state included
C6_CountersComplementary ==
    /\ (script = "cisco" /\ exit_code = 0) =>
           /\ stdout.summary.established_sessions + stdout.summary.down_sessions
                  = stdout.summary.total_neighbors
           /\ stdout.summary.total_neighbors = Len(stdout.neighbors)
    /\ (script = "juniper" /\ exit_code = 0) =>
           /\ stdout.summary.full_state_neighbors
                  + stdout.summary.non_full_state_neighbors
                  = stdout.summary.total_neighbors
           /\ stdout.summary.total_neighbors = Len(stdout.neighbors)

\* a Juniper report of two neighbors, one Full and one without a state
C6_Witness ==
    /\ script = "juniper" /\ exit_code = 0
    /\ Len(stdout.neighbors) = 2
    /\ stdout.neighbors[1].state = Str("Full")
    /\ stdout.neighbors[2].state = Null
    /\ stdout.summary.full_state_neighbors = 1
    /\ stdout.summary.non_full_state_neighbors = 1

----------------------------------------------------------------------------
(* Claims about the order and the restriction of the items *)

\* the ranking key of an item: the larger of its two utilizations as reported
Rank(x) ==
    IF RatGT(x.output_utilization, x.input_utilization)
    THEN x.output_utilization ELSE x.input_utilization

\* C11: the interfaces of the Arista report are sorted by ranking key
\* descending: for every adjacent pair (a, b), rank(a) >= rank(b)
C11_SortedByRankDescending ==
    AristaReported =>
        \A i \in 1..(Len(result.interfaces) - 1) :
            RatGE(Rank(result.interfaces[i]), Rank(result.interfaces[i + 1]))

\* the second identifier collected has the larger rank and is reported first
C11_Witness ==
    /\ AristaReported /\ pc = "exit" /\ stdout = result
    /\ Len(result.interfaces) = 2
    /\ result.interfaces[1].name = <<"Ethernet", 2>>
    /\ result.interfaces[2].name = <<"Ethernet", 1>>
    /\ RatGT(Rank(result.interfaces[1]), Rank(result.interfaces[2]))

\* C12: when a specific neighbor is requested, every item of the Cisco report
\* has neighbor_ip equal to it, whatever sections the output of the command holds
C12_OnlyRequestedNeighbor ==
    (script = "cisco" /\ specific_neighbor # NoValue /\ result # NoValue) =>
        \A i \in DOMAIN result.neighbors :
            result.neighbors[i].neighbor_ip = specific_neighbor

\* a pass of the loop has read an identifier that does not start with Ethernet
OtherIdentifierRead ==
    /\ script = "arista"
    /\ Len(interface_status') = Len(interface_status) + 1
    /\ interface_status'[Len(interface_status')][1][1] # "Ethernet"

\* C13: an identifier of the status table is an item of the Arista report only
\* if it starts with Ethernet; an identifier without the prefix is dropped
\* without raising and without changing any of the four summary counters
C13_OnlyEthernetIdentifiers ==
    /\ [](\A i \in DOMAIN interfaces : interfaces[i].name[1] = "Ethernet")
    /\ [][OtherIdentifierRead =>
            /\ interfaces' = interfaces
            /\ active_interfaces_count' = active_interfaces_count
            /\ high_utilization_count' = high_utilization_count
            /\ error_interfaces_count' = error_interfaces_count
            /\ loop_errors' = loop_errors
            /\ raised' = raised]_vars

\* a Management identifier that is up was read before an Ethernet one, and the
\* report holds and counts the Ethernet one only
C13_Witness ==
    /\ AristaReported /\ pc = "exit" /\ stdout = result
    /\ Len(interface_status) = 2
    /\ interface_status[1][1][1] = "Management"
    /\ interface_status[1][2] = UsualStatus
    /\ Len(result.interfaces) = 1
    /\ result.interfaces[1].name = <<"Ethernet", 2>>
    /\ result.summary.total_interfaces = 1
    /\ result.summary.active_interfaces = 1

----------------------------------------------------------------------------
(* Claims about the command line boundary and the shape of the reports *)

Exited == pc = "exit" /\ script \in {"arista", "cisco", "juniper"}

\* what was printed on standard output is a report
ReportPrinted == {"device", "summary"} \subseteq DOMAIN stdout

\* what was printed on standard output is the two-field error document
ErrorDocumentPrinted ==
    /\ DOMAIN stdout = {"error", "success"}
    /\ stdout.success = FALSE

\* C14: every run of the Arista, Cisco and Juniper scripts ends either with a
\* report on standard output and exit code 0, or, when main caught an error,
\* with the two-field error document on standard output, a message on standard
\* error and exit code 1; never both, and never the error document with exit 0
C14_ReportOrErrorDocument ==
    Exited =>
        /\ \/ ReportPrinted /\ ~ErrorDocumentPrinted /\ exit_code = 0 /\ ~stderr
           \/ ErrorDocumentPrinted /\ ~ReportPrinted /\ exit_code = 1 /\ stderr
        /\ raised # NoValue => ErrorDocumentPrinted /\ exit_code = 1

\* the field of a report that holds its items
ItemsField == IF script = "arista" THEN "interfaces" ELSE "neighbors"

\* C15: every report of the Arista, Cisco and Juniper scripts, the degraded
\* Cisco report included, has a device block with hostname, platform, model and
\* version, a timestamp, a sequence of items and a summary
C15_FixedReportShape ==
    (Exited /\ exit_code = 0) =>
        /\ {"device", "timestamp", "summary", ItemsField} \subseteq DOMAIN stdout
        /\ {"hostname", "platform", "model", "version"} \subseteq DOMAIN stdout.device

----------------------------------------------------------------------------
(* Claims about the defaults of missing item fields and the order of items *)

\* the sections whose header names a neighbor, in the order of the output
NamedSections == SelectSeq(neighbor_sections, LAMBDA x : x.neighbor_ip # NoMatch)

EmptyText == Str("")

AristaDefaults ==
    \A i \in DOMAIN interfaces :
        LET it == interfaces[i]
            status == StatusEntryOf(it.name)
        IN  /\ it.name \notin DOMAIN interface_descriptions => it.description = EmptyText
            /\ (status.t = "map" /\ "linkStatus" \notin DOMAIN status.m)
                   => it.status = EmptyText
            /\ it.name \notin DOMAIN interface_rates
                   => it.input_rate_mbps = Zero /\ it.output_rate_mbps = Zero
            /\ it.name \notin DOMAIN interface_errors
                   => it.input_errors = Zero /\ it.output_errors = Zero

CiscoDefaults ==
    /\ Len(result.neighbors) = Len(NamedSections)
    /\ \A i \in DOMAIN result.neighbors :
           LET it == result.neighbors[i]
               section == NamedSections[i]
           IN  /\ section.state = NoMatch => it.state = EmptyText
               /\ section.uptime = NoMatch => it.uptime = EmptyText
               /\ section.description = NoMatch => it.description = EmptyText
               /\ section.accepted = NoMatch => it.prefixes_received = Zero
               /\ section.announced = NoMatch => it.prefixes_sent = Zero

JuniperDefaults ==
    /\ Len(result.neighbors) = Len(rpc)
    /\ \A i \in DOMAIN result.neighbors :
           LET it == result.neighbors[i]
               nbr == rpc[i]
           IN  /\ nbr.neighbor_id = Null => it.neighbor_id = EmptyText
               /\ nbr.neighbor_address = Null => it.neighbor_address = EmptyText
               /\ nbr.interface_name = Null => it.interface = EmptyText
               /\ nbr.ospf_neighbor_state = Null => it.state = EmptyText
               /\ nbr.ospf_area = Null => it.area = EmptyText
               /\ nbr.neighbor_adjacency_time = Null => it.adjacency_time = EmptyText
               /\ nbr.ospf_neighbor_dead_time = Null => it.dead_time = EmptyText

\* C16: in every item of every report a text field missing from the raw input
\* is the empty string and a missing counter or rate is 0: the Arista port
\* fields, the Cisco neighbor fields (state, uptime, description, prefixes) and
\* the Juniper neighbor fields read from the XML node
C16_MissingFieldDefaults ==
    /\ script = "arista" => AristaDefaults
    /\ (script = "cisco" /\ result # NoValue /\ exc = NoValue) => CiscoDefaults
    /\ (script = "juniper" /\ result # NoValue) => JuniperDefaults

----------------------------------------------------------------------------
(* Claims about the DNS checker *)

DnsReturned == script = "dns" /\ pc \in {"returned", "exit"} /\ raised = NoValue

\* the resolver gave an address, or raised the lookup error
Resolved == exc = NoValue
LookupFailed == exc # NoValue /\ exc.class = "gaierror"

\* C17: the DNS checker exits with code 0 whenever resolution succeeds or fails
\* with the lookup error, and with code 1 only when another exception is
\* raised; check_dns_record_exists returns (True, ip) with ip not None on
\* success and (False, None) on a lookup failure, so exists is true exactly
\* when an address is returned
C17_DnsExitCodesAndTuple ==
    script = "dns" =>
        /\ (pc = "exit" /\ (Resolved \/ LookupFailed)) => exit_code = 0
        /\ (pc = "exit" /\ exit_code = 1) => (~Resolved /\ ~LookupFailed)
        /\ (pc # "start" /\ Resolved) =>
               DnsReturned /\ exists = TRUE /\ ip_address \in Addresses
        /\ (pc # "start" /\ LookupFailed) =>
               DnsReturned /\ exists = FALSE /\ ip_address = Null
        /\ DnsReturned => (exists = TRUE <=> ip_address # Null)

\* the lookup failed, the name is reported as not existing and the exit code is 0
C17_Witness ==
    /\ script = "dns" /\ pc = "exit" /\ LookupFailed
    /\ exists = FALSE /\ ip_address = Null
    /\ stdout = <<<<"DNS record for ", hostname.s, " does not exist.">>>>
    /\ exit_code = 0

----------------------------------------------------------------------------
(* Claims about the order of the neighbors and about the session *)

\* C18: the Cisco report lists the parsed neighbors in the order of their
\* sections in the command output, and the Juniper report in the order of the
\* neighbor nodes of the RPC reply: nothing reordered, duplicated or lost
C18_CollectionOrderPreserved ==
    /\ (script = "cisco" /\ result # NoValue /\ exc = NoValue) =>
           /\ Len(result.neighbors) = Len(NamedSections)
           /\ \A i \in DOMAIN result.neighbors :
                  /\ result.neighbors[i].neighbor_ip = NamedSections[i].neighbor_ip
                  /\ result.neighbors[i].remote_as = NamedSections[i].remote_as
    /\ (script = "juniper" /\ result # NoValue) =>
           /\ Len(result.neighbors) = Len(rpc)
           /\ \A i \in DOMAIN result.neighbors :
                  /\ result.neighbors[i].neighbor_id = rpc[i].neighbor_id
                  /\ result.neighbors[i].state = rpc[i].ospf_neighbor_state

\* two sections in an order that is not the order of their addresses
C18_Witness ==
    /\ script = "cisco" /\ pc = "exit" /\ exc = NoValue /\ stdout = result
    /\ Len(neighbor_sections) = 2
    /\ neighbor_sections[1].neighbor_ip = Str("192.168.1.2")
    /\ neighbor_sections[2].neighbor_ip = Str("192.168.1.1")
    /\ Len(result.neighbors) = 2
    /\ result.neighbors[1].neighbor_ip = Str("192.168.1.2")
    /\ result.neighbors[2].neighbor_ip = Str("192.168.1.1")

\* the fetch function of the Cisco or the Juniper script has returned or raised
FetchLeft ==
    /\ script \in {"cisco", "juniper"}
    /\ pc \in {"returned", "raised", "exit"}

\* C19: on every path of the fetch function of the Cisco and the Juniper script
\* after the session was opened (normal return, degraded report, exception), the
\* session is closed before the function returns or raises
C19_SessionClosedOnEveryPath ==
    FetchLeft => session # "open"

----------------------------------------------------------------------------
(* Claims about the high_utilization flag *)

\* rate / bandwidth_mbps * 100 before rounding, 0 when bandwidth_mbps is not > 0
ExactUtilization(rate, bandwidth_mbps) ==
    IF RatGT(bandwidth_mbps, Zero)
    THEN Rat(rate.n * bandwidth_mbps.d * 100, rate.d * bandwidth_mbps.n)
    ELSE Zero

ExactInput(it) ==
    ExactUtilization(Supplied(interface_rates, it.name, "inRate"), it.bandwidth_mbps)
ExactOutput(it) ==
    ExactUtilization(Supplied(interface_rates, it.name, "outRate"), it.bandwidth_mbps)

ReportedAbove(it) ==
    \/ RatGT(it.input_utilization, Whole(threshold))
    \/ RatGT(it.output_utilization, Whole(threshold))

\* C20 (as stated): in every item of the Arista report high_utilization is true
\* if and only if the reported, rounded input_utilization or output_utilization
\* is strictly greater than the threshold
C20_FlagAgreesWithReported ==
    script = "arista" =>
        \A i \in DOMAIN interfaces :
            interfaces[i].high_utilization <=> ReportedAbove(interfaces[i])

\* C20 (amended): high_utilization is true if and only if the utilization
\* before rounding is strictly greater than the threshold; a reported value
\* above the threshold implies the flag, and the flag implies a reported value
\* that is at least the threshold
C20_FlagFromExactUtilization ==
    script = "arista" =>
        \A i \in DOMAIN interfaces :
            LET it == interfaces[i]
            IN  /\ it.high_utilization <=>
                       \/ RatGT(ExactInput(it), Whole(threshold))
                       \/ RatGT(ExactOutput(it), Whole(threshold))
                /\ ReportedAbove(it) => it.high_utilization
                /\ it.high_utilization =>
                       \/ RatGE(it.input_utilization, Whole(threshold))
                       \/ RatGE(it.output_utilization, Whole(threshold))

\* an item whose utilization is 70.004 before rounding: reported as 70.0 at
\* threshold 70, and flagged
C20_Witness ==
    /\ AristaReported /\ pc = "exit" /\ stdout = result
    /\ \E i \in DOMAIN result.interfaces :
           LET it == result.interfaces[i]
           IN  /\ it.high_utilization
               /\ ExactInput(it) = Rat(17501, 250)
               /\ it.input_utilization = Whole(70)
               /\ ~ReportedAbove(it)

============================================================================
